---------------------------- MODULE Spec2Model ----------------------------
(***************************************************************************)
(* Model of the Voting contract (src/contract.py, class Voting).           *)
(*                                                                         *)
(* The ledger executes one application call at a time.  Every step of the  *)
(* model is one whole call: the handler runs against the state the         *)
(* previous call left, with the caller (Txn.sender) and the block time     *)
(* (Global.latest_timestamp) supplied by the ledger.  A failed assert or   *)
(* op.exit(0) rejects the call and the ledger keeps the state the call     *)
(* started from.                                                           *)
(***************************************************************************)
EXTENDS Integers, FiniteSets, Sequences, TLC

(***************************************************************************)
(* Bounds of the model.                                                    *)
(***************************************************************************)
NumAccounts == 2
MaxTime     == 2
MaxArg      == 5

Accounts      == 1..NumAccounts
Times         == 0..MaxTime
OptionArgs    == 0..MaxArg
NoOfOptionsArgs == 0..MaxArg
EndsAtArgs    == 0..MaxTime

Titles        == {"Title"}
Descriptions  == {"Description"}
Option1Labels == {"Yes"}
Option2Labels == {"No"}
Option3Labels == {"Maybe"}
Option4Labels == {""}

VARIABLES
    title, description, noOfOptions,
    option1, option2, option3, option4,
    option1Votes, option2Votes, option3Votes, option4Votes,
    startsAt, endsAt, vote_status,
    localState,   \* account -> stored option, defined on the accounts whose key exists
    optedIn,      \* accounts holding a local-state slot for this application
    now,          \* Global.latest_timestamp of the latest call
    last,         \* the latest call: operation, caller, arguments and outcome
    deadlineRejected  \* history: some create_vote was rejected for its deadline

meta    == <<title, description, noOfOptions, option1, option2, option3, option4>>
tallies == <<option1Votes, option2Votes, option3Votes, option4Votes>>
window  == <<startsAt, endsAt>>
poll    == <<meta, tallies, window, vote_status>>
stored  == <<poll, localState, optedIn>>
vars    == <<stored, now, last, deadlineRejected>>

Call(op, sender, option, n, e, result) ==
    [op |-> op, sender |-> sender, option |-> option,
     noOfOptions |-> n, endsAt |-> e, result |-> result]

(***************************************************************************)
(* __init__                                                                *)
(***************************************************************************)
Init ==
    /\ title = ""
    /\ description = ""
    /\ noOfOptions = 0
    /\ option1 = ""
    /\ option2 = ""
    /\ option3 = ""
    /\ option4 = ""
    /\ option1Votes = 0
    /\ option2Votes = 0
    /\ option3Votes = 0
    /\ option4Votes = 0
    /\ startsAt = 0
    /\ endsAt = 0
    /\ vote_status = 0
    /\ localState = <<>>
    /\ optedIn = {}
    /\ now = 0
    /\ last = Call("init", 0, 0, 0, 0, "Ok")
    /\ deadlineRejected = FALSE

(***************************************************************************)
(* create_vote                                                             *)
(***************************************************************************)
\* mutant: the assert on vote_status is missing
NotYetCreatedDropped == TRUE

NotYetCreated == vote_status = 0

\* mutant: lower bound off by one
OptionCountFromOne(n) == n >= 1 /\ n <= 4

\* mutant: upper bound off by one
OptionCountUpToFive(n) == n >= 2 /\ n <= 5

OptionCountInRange(n) == n >= 2 /\ n <= 4

\* mutant: <= for <
DeadlineNotPast(t, e) == t <= e

\* mutant: the assert on endsAt is missing
DeadlineUnchecked(t, e) == TRUE

DeadlineInFuture(t, e) == t < e

\* mutant: the deadline is asserted before the number of options
CreateVoteResultDeadlineFirst(t, n, e) ==
    IF ~NotYetCreated THEN "AlreadyCreated"
    ELSE IF ~DeadlineInFuture(t, e) THEN "InvalidDeadline"
    ELSE IF ~OptionCountInRange(n) THEN "InvalidOptionCount"
    ELSE "Ok"

CreateVoteResult(t, n, e) ==
    IF ~NotYetCreated THEN "AlreadyCreated"
    ELSE IF ~OptionCountInRange(n) THEN "InvalidOptionCount"
    ELSE IF ~DeadlineInFuture(t, e) THEN "InvalidDeadline"
    ELSE "Ok"

\* mutant: the labels beyond noOfOptions are stored empty
StoreVoteDetailsTrimmed(t, ti, d, n, o1, o2, o3, o4, e) ==
    /\ title' = ti
    /\ description' = d
    /\ noOfOptions' = n
    /\ option1' = o1
    /\ option2' = o2
    /\ option3' = IF n >= 3 THEN o3 ELSE ""
    /\ option4' = IF n >= 4 THEN o4 ELSE ""
    /\ option1Votes' = 0
    /\ option2Votes' = 0
    /\ option3Votes' = 0
    /\ option4Votes' = 0
    /\ startsAt' = t
    /\ endsAt' = e
    /\ vote_status' = 1

StoreVoteDetails(t, ti, d, n, o1, o2, o3, o4, e) ==
    /\ title' = ti
    /\ description' = d
    /\ noOfOptions' = n
    /\ option1' = o1
    /\ option2' = o2
    /\ option3' = o3
    /\ option4' = o4
    /\ option1Votes' = 0
    /\ option2Votes' = 0
    /\ option3Votes' = 0
    /\ option4Votes' = 0
    /\ startsAt' = t
    /\ endsAt' = e
    /\ vote_status' = 1

\* create_vote never reads Txn.sender: the caller is no input of the handler
create_vote(t, ti, d, n, o1, o2, o3, o4, e) ==
    /\ now' = t
    /\ last' = Call("create_vote", 0, 0, n, e, CreateVoteResult(t, n, e))
    /\ deadlineRejected' = (deadlineRejected \/ CreateVoteResult(t, n, e) = "InvalidDeadline")
    /\ IF CreateVoteResult(t, n, e) = "Ok"
       THEN StoreVoteDetails(t, ti, d, n, o1, o2, o3, o4, e)
       ELSE UNCHANGED poll
    /\ UNCHANGED <<localState, optedIn>>

(***************************************************************************)
(* vote                                                                    *)
(***************************************************************************)
\* mutant: the assert on endsAt is missing
NotEndedDropped(t) == TRUE

\* mutant: <= for <
NotEndedInclusive(t) == t <= endsAt

NotEnded(t) == t < endsAt

\* mutant: >= for >
HasStartedInclusive(t) == t >= startsAt

HasStarted(t) == t > startsAt

\* mutant: the option is bounded by the number of slots
OptionValidUpToFour(option) == option >= 1 /\ option <= 4

OptionValid(option) == option >= 1 /\ option <= noOfOptions

\* mutant: local state usable without opting in
HasSlotAlways(sender) == TRUE

\* self.localState.maybe(Txn.sender): the read needs the caller's slot
HasSlot(sender) == sender \in optedIn

\* mutant: the assert on exist is missing
KeyExistsIgnored(sender) == FALSE

KeyExists(sender) == sender \in DOMAIN localState

\* mutant: a flag is stored in place of the option
PutLocalFlag(sender, option) ==
    [a \in (DOMAIN localState) \cup {sender} |->
        IF a = sender THEN 1 ELSE localState[a]]

\* self.localState[Txn.sender] = option
PutLocal(sender, option) ==
    [a \in (DOMAIN localState) \cup {sender} |->
        IF a = sender THEN option ELSE localState[a]]

\* mutant: the branch of option 4 is missing
IncrementBranchUpToThree(option) ==
    IF option = 1 THEN 1
    ELSE IF option = 2 THEN 2
    ELSE IF option = 3 THEN 3
    ELSE 0

\* the if/elif chain ends in op.exit(0) for an option outside 1..4
IncrementBranch(option) ==
    IF option = 1 THEN 1
    ELSE IF option = 2 THEN 2
    ELSE IF option = 3 THEN 3
    ELSE IF option = 4 THEN 4
    ELSE 0

\* mutant: the caller's record is looked up before the other asserts
VoteResultRecordFirst(sender, t, option) ==
    IF ~HasSlot(sender) THEN "NotOptedIn"
    ELSE IF KeyExists(sender) THEN "AlreadyVoted"
    ELSE IF ~NotEnded(t) THEN "VotingEnded"
    ELSE IF ~HasStarted(t) THEN "VotingNotStarted"
    ELSE IF ~OptionValid(option) THEN "InvalidOption"
    ELSE IF IncrementBranch(option) = 0 THEN "Exit"
    ELSE "Ok"

VoteResult(sender, t, option) ==
    IF ~NotEnded(t) THEN "VotingEnded"
    ELSE IF ~HasStarted(t) THEN "VotingNotStarted"
    ELSE IF ~OptionValid(option) THEN "InvalidOption"
    ELSE IF ~HasSlot(sender) THEN "NotOptedIn"
    ELSE IF KeyExists(sender) THEN "AlreadyVoted"
    ELSE IF IncrementBranch(option) = 0 THEN "Exit"
    ELSE "Ok"

\* mutant: the branch of option 2 credits option 1
IncrementVotesCrossed(option) ==
    /\ option1Votes' = IF IncrementBranch(option) \in {1, 2} THEN option1Votes + 1 ELSE option1Votes
    /\ option2Votes' = option2Votes
    /\ option3Votes' = IF IncrementBranch(option) = 3 THEN option3Votes + 1 ELSE option3Votes
    /\ option4Votes' = IF IncrementBranch(option) = 4 THEN option4Votes + 1 ELSE option4Votes

\* mutant: the branch of option 3 credits nothing
IncrementVotesSkipping3(option) ==
    /\ option1Votes' = IF IncrementBranch(option) = 1 THEN option1Votes + 1 ELSE option1Votes
    /\ option2Votes' = IF IncrementBranch(option) = 2 THEN option2Votes + 1 ELSE option2Votes
    /\ option3Votes' = option3Votes
    /\ option4Votes' = IF IncrementBranch(option) = 4 THEN option4Votes + 1 ELSE option4Votes

IncrementVotes(option) ==
    /\ option1Votes' = IF IncrementBranch(option) = 1 THEN option1Votes + 1 ELSE option1Votes
    /\ option2Votes' = IF IncrementBranch(option) = 2 THEN option2Votes + 1 ELSE option2Votes
    /\ option3Votes' = IF IncrementBranch(option) = 3 THEN option3Votes + 1 ELSE option3Votes
    /\ option4Votes' = IF IncrementBranch(option) = 4 THEN option4Votes + 1 ELSE option4Votes

\* mutant: the record is written before the assert on exist and survives it
voteWritingFirst(sender, t, option) ==
    /\ now' = t
    /\ last' = Call("vote", sender, option, 0, 0, VoteResult(sender, t, option))
    /\ IF VoteResult(sender, t, option) = "Ok"
       THEN /\ localState' = PutLocal(sender, option)
            /\ IncrementVotes(option)
       ELSE IF VoteResult(sender, t, option) = "AlreadyVoted"
       THEN /\ localState' = PutLocal(sender, option)
            /\ UNCHANGED tallies
       ELSE UNCHANGED <<localState, tallies>>
    /\ UNCHANGED <<meta, window, vote_status, optedIn, deadlineRejected>>

vote(sender, t, option) ==
    /\ now' = t
    /\ last' = Call("vote", sender, option, 0, 0, VoteResult(sender, t, option))
    /\ IF VoteResult(sender, t, option) = "Ok"
       THEN /\ localState' = PutLocal(sender, option)
            /\ IncrementVotes(option)
       ELSE UNCHANGED <<localState, tallies>>
    /\ UNCHANGED <<meta, window, vote_status, optedIn, deadlineRejected>>

(***************************************************************************)
(* opt_in                                                                  *)
(***************************************************************************)
\* mutant: opting in hands out a fresh, empty slot
opt_inResetting(sender, t) ==
    /\ now' = t
    /\ last' = Call("opt_in", sender, 0, 0, 0, "Ok")
    /\ optedIn' = optedIn \cup {sender}
    /\ localState' = [a \in (DOMAIN localState) \ {sender} |-> localState[a]]
    /\ UNCHANGED <<poll, deadlineRejected>>

opt_in(sender, t) ==
    /\ now' = t
    /\ last' = Call("opt_in", sender, 0, 0, 0, "Ok")
    /\ optedIn' = optedIn \cup {sender}
    /\ UNCHANGED <<poll, localState, deadlineRejected>>

(***************************************************************************)
(* The ledger: calls in one total order, at non-decreasing block times.    *)
(* A call runs in the block of the previous call or in the next one; a     *)
(* longer gap is a chain of such steps (a rejected call changes nothing).  *)
(***************************************************************************)
LaterTimes == {t \in Times : t = now \/ t = now + 1}

CreateVoteCall ==
    \E t \in LaterTimes, ti \in Titles, d \in Descriptions,
       n \in NoOfOptionsArgs, o1 \in Option1Labels, o2 \in Option2Labels,
       o3 \in Option3Labels, o4 \in Option4Labels, e \in EndsAtArgs :
        create_vote(t, ti, d, n, o1, o2, o3, o4, e)

VoteCall ==
    \E sender \in Accounts, t \in LaterTimes, option \in OptionArgs :
        vote(sender, t, option)

OptInCall ==
    \E sender \in Accounts, t \in LaterTimes : opt_in(sender, t)

Next == CreateVoteCall \/ VoteCall \/ OptInCall

Spec == Init /\ [][Next]_vars

(***************************************************************************)
(* Vocabulary of the properties.  A VoterRecord has hasVoted = TRUE        *)
(* exactly when the account's key exists, and chosenOption is its value.   *)
(***************************************************************************)
HasVoted(a) == a \in DOMAIN localState

SumTallies == option1Votes + option2Votes + option3Votes + option4Votes

Rejected(c) == c.result # "Ok"

(***************************************************************************)
(* C1  Tally conservation: in every reachable state the sum of the four    *)
(* tallies equals the number of accounts that have voted.                  *)
(***************************************************************************)
TallyConservation ==
    SumTallies = Cardinality({a \in Accounts : HasVoted(a)})

TallyConservationWitness ==
    /\ last.op = "vote" /\ last.result = "Ok"
    /\ SumTallies = 2
    /\ Cardinality({a \in Accounts : HasVoted(a)}) = 2

(***************************************************************************)
(* C2 as stated: every vote call by an account that has voted fails with   *)
(* AlreadyVoted, whatever the option and the time, and changes no tally.   *)
(***************************************************************************)
SecondVoteAlwaysAlreadyVoted ==
    [][(last'.op = "vote" /\ HasVoted(last'.sender))
          => (last'.result = "AlreadyVoted" /\ tallies' = tallies)]_vars

(***************************************************************************)
(* C2 amended: every vote call by an account that has voted is rejected    *)
(* and changes no tally; the reason is AlreadyVoted when the call is made  *)
(* inside the window with an option in 1..noOfOptions, and otherwise the   *)
(* reason of the earlier check (VotingEnded, VotingNotStarted or           *)
(* InvalidOption).  hasVoted never goes back to false and chosenOption     *)
(* never changes.                                                          *)
(***************************************************************************)
OneVotePerAccount ==
    [][\A a \in Accounts : HasVoted(a) =>
          /\ a \in DOMAIN localState'
          /\ localState'[a] = localState[a]
          /\ (last'.op = "vote" /\ last'.sender = a) =>
                /\ last'.result \in {"AlreadyVoted", "VotingEnded",
                                     "VotingNotStarted", "InvalidOption"}
                /\ tallies' = tallies
                /\ (/\ startsAt < now' /\ now' < endsAt
                    /\ last'.option >= 1 /\ last'.option <= noOfOptions)
                      => last'.result = "AlreadyVoted"]_vars

OneVotePerAccountWitness ==
    /\ last.op = "vote" /\ last.result = "AlreadyVoted"
    /\ HasVoted(last.sender)
    /\ localState[last.sender] # last.option

(***************************************************************************)
(* C3  Single creation: once the poll is Active every create_vote call     *)
(* fails with AlreadyCreated and changes nothing, whatever its arguments   *)
(* and time; vote_status only ever changes from 0 to 1, by a successful    *)
(* create_vote.                                                            *)
(***************************************************************************)
SingleCreation ==
    [][/\ vote_status = 1 => vote_status' = 1
       /\ (vote_status = 1 /\ last'.op = "create_vote")
             => (last'.result = "AlreadyCreated" /\ stored' = stored)
       /\ vote_status' # vote_status
             => (/\ vote_status = 0 /\ vote_status' = 1
                 /\ last'.op = "create_vote" /\ last'.result = "Ok")]_vars

SingleCreationWitness ==
    /\ last.op = "create_vote" /\ last.result = "AlreadyCreated"
    /\ last.noOfOptions \in 2..4
    /\ now < last.endsAt
    /\ vote_status = 1

(***************************************************************************)
(* C4  Window enforcement: on an Active poll a vote at startsAt fails with *)
(* VotingNotStarted, a vote at endsAt fails with VotingEnded, a vote       *)
(* strictly between them by an opted-in account that has not voted, with   *)
(* an option in 1..noOfOptions, succeeds; and no vote succeeds at a time   *)
(* outside the open interval (startsAt, endsAt).                           *)
(***************************************************************************)
WindowEnforcement ==
    [][last'.op = "vote" =>
          /\ (vote_status = 1 /\ now' = startsAt)
                => last'.result = "VotingNotStarted"
          /\ (vote_status = 1 /\ now' = endsAt)
                => last'.result = "VotingEnded"
          /\ (/\ vote_status = 1
              /\ startsAt < now' /\ now' < endsAt
              /\ last'.sender \in optedIn
              /\ ~HasVoted(last'.sender)
              /\ last'.option >= 1 /\ last'.option <= noOfOptions)
                => last'.result = "Ok"
          /\ last'.result = "Ok"
                => (startsAt < now' /\ now' < endsAt)]_vars

WindowEnforcementWitness ==
    /\ last.op = "vote" /\ last.result = "VotingNotStarted"
    /\ vote_status = 1 /\ now = startsAt
    /\ last.sender \in optedIn /\ ~HasVoted(last.sender)
    /\ last.option >= 1 /\ last.option <= noOfOptions

(***************************************************************************)
(* C5  Option bound at creation: while no poll exists, create_vote with    *)
(* noOfOptions outside 2..4 fails with InvalidOptionCount, and with        *)
(* noOfOptions in 2..4 and a deadline after the current time it succeeds.  *)
(***************************************************************************)
OptionBoundAtCreation ==
    [][(vote_status = 0 /\ last'.op = "create_vote") =>
          /\ last'.noOfOptions \notin 2..4
                => (last'.result = "InvalidOptionCount" /\ vote_status' = 0)
          /\ (last'.noOfOptions \in 2..4 /\ now' < last'.endsAt)
                => (last'.result = "Ok" /\ vote_status' = 1)]_vars

OptionBoundAtCreationWitness ==
    /\ last.op = "create_vote" /\ last.result = "InvalidOptionCount"
    /\ last.noOfOptions = 5
    /\ now < last.endsAt
    /\ vote_status = 0

(***************************************************************************)
(* C6  A rejected creation does not consume the creation: while no poll    *)
(* exists, create_vote with a valid noOfOptions and endsAt <= current time *)
(* fails with InvalidDeadline and changes nothing; and once such a         *)
(* rejection has happened, while still no poll exists, create_vote with a  *)
(* valid noOfOptions and endsAt after the then-current time succeeds.      *)
(***************************************************************************)
RejectedCreationKeepsCreation ==
    [][last'.op = "create_vote" =>
          /\ (/\ vote_status = 0
              /\ last'.noOfOptions \in 2..4
              /\ last'.endsAt <= now')
                => (/\ last'.result = "InvalidDeadline"
                    /\ vote_status' = 0
                    /\ stored' = stored)
          /\ (/\ deadlineRejected
              /\ vote_status = 0
              /\ last'.noOfOptions \in 2..4
              /\ now' < last'.endsAt)
                => (/\ last'.result = "Ok"
                    /\ vote_status' = 1
                    /\ startsAt' = now'
                    /\ endsAt' = last'.endsAt)]_vars

RejectedCreationKeepsCreationWitness ==
    /\ deadlineRejected
    /\ last.op = "create_vote" /\ last.result = "Ok"
    /\ vote_status = 1
    /\ now > 0

(***************************************************************************)
(* C7  Opt-in is required to vote: a vote call by an account that has not  *)
(* opted in is rejected and changes neither the tallies nor any voter      *)
(* record; inside the window with an option in 1..noOfOptions the reason   *)
(* is NotOptedIn.                                                          *)
(***************************************************************************)
OptInRequired ==
    [][(last'.op = "vote" /\ last'.sender \notin optedIn) =>
          /\ Rejected(last')
          /\ tallies' = tallies
          /\ localState' = localState
          /\ optedIn' = optedIn
          /\ (/\ startsAt < now' /\ now' < endsAt
              /\ last'.option >= 1 /\ last'.option <= noOfOptions)
                => last'.result = "NotOptedIn"]_vars

OptInRequiredWitness ==
    /\ last.op = "vote" /\ last.result = "NotOptedIn"
    /\ last.sender \notin optedIn
    /\ startsAt < now /\ now < endsAt
    /\ last.option >= 1 /\ last.option <= noOfOptions

(***************************************************************************)
(* C8  All or nothing: a rejected call of any operation leaves the whole   *)
(* stored state as it was; and in every step an account's record changes   *)
(* exactly when the tally of the recorded option goes up by one.           *)
(***************************************************************************)
TallyOf(i) ==
    IF i = 1 THEN option1Votes
    ELSE IF i = 2 THEN option2Votes
    ELSE IF i = 3 THEN option3Votes
    ELSE option4Votes

AllOrNothing ==
    [][/\ Rejected(last') => stored' = stored
       /\ localState' # localState <=> tallies' # tallies
       /\ localState' # localState =>
             /\ last'.op = "vote" /\ last'.result = "Ok"
             /\ ~HasVoted(last'.sender)
             /\ localState' = [a \in DOMAIN localState \cup {last'.sender} |->
                                  IF a = last'.sender THEN last'.option
                                  ELSE localState[a]]
             /\ \A i \in 1..4 :
                   TallyOf(i)' = TallyOf(i) + (IF i = last'.option THEN 1 ELSE 0)]_vars

AllOrNothingWitness ==
    /\ last.op = "vote" /\ last.result = "InvalidOption"
    /\ last.sender \in optedIn /\ ~HasVoted(last.sender)
    /\ startsAt < now /\ now < endsAt
    /\ SumTallies = 1

(***************************************************************************)
(* C9  opt_in is idempotent: it never fails, it changes nothing but the    *)
(* caller's membership of the opted-in accounts, and for an account that   *)
(* is already opted in it changes nothing at all; an account that has      *)
(* voted keeps its record and the tallies through opt_in.                  *)
(***************************************************************************)
OptInIdempotent ==
    [][last'.op = "opt_in" =>
          /\ last'.result = "Ok"
          /\ optedIn' = optedIn \cup {last'.sender}
          /\ poll' = poll
          /\ localState' = localState
          /\ last'.sender \in optedIn => stored' = stored]_vars

OptInIdempotentWitness ==
    /\ last.op = "opt_in" /\ last.result = "Ok"
    /\ HasVoted(last.sender)
    /\ SumTallies = 1

(***************************************************************************)
(* C10  Voting requires a created poll: a vote succeeds only from a state  *)
(* with vote_status = 1 and startsAt < current time < endsAt; while        *)
(* vote_status = 0 every vote call is rejected and changes nothing.        *)
(***************************************************************************)
VoteRequiresPoll ==
    [][last'.op = "vote" =>
          /\ last'.result = "Ok"
                => (vote_status = 1 /\ startsAt < now' /\ now' < endsAt)
          /\ vote_status = 0
                => (Rejected(last') /\ stored' = stored)]_vars

VoteRequiresPollWitness ==
    /\ last.op = "vote" /\ Rejected(last)
    /\ vote_status = 0
    /\ last.sender \in optedIn
    /\ last.option >= 1
    /\ now > 0

(***************************************************************************)
(* C11  Deadline ordering and immutability: in every state with            *)
(* vote_status = 1, startsAt < endsAt; and from such a state no call       *)
(* changes startsAt, endsAt, title, description, noOfOptions or an option  *)
(* label.                                                                  *)
(***************************************************************************)
DeadlineOrderedAndFixed ==
    [][/\ vote_status' = 1 => startsAt' < endsAt'
       /\ vote_status = 1 => (/\ startsAt < endsAt
                              /\ window' = window
                              /\ meta' = meta)]_vars

DeadlineOrderedAndFixedWitness ==
    /\ vote_status = 1
    /\ startsAt < endsAt
    /\ last.op = "vote" /\ last.result = "Ok"
    /\ now > startsAt
    /\ title = "Title" /\ option3 = "Maybe"

(***************************************************************************)
(* C12  Option-count bound: in every state with vote_status = 1,           *)
(* 2 <= noOfOptions <= 4; in every state with vote_status = 0,             *)
(* noOfOptions = 0.                                                        *)
(***************************************************************************)
OptionCountBound ==
    /\ vote_status = 1 => (2 <= noOfOptions /\ noOfOptions <= 4)
    /\ vote_status = 0 => noOfOptions = 0

OptionCountBoundWitness ==
    /\ vote_status = 1
    /\ noOfOptions = 4
    /\ last.op = "create_vote" /\ last.result = "AlreadyCreated"
    /\ last.noOfOptions = 5

(***************************************************************************)
(* C13  vote reports the first failing precondition: VotingEnded when      *)
(* current time >= endsAt; else VotingNotStarted when current time <=      *)
(* startsAt; else InvalidOption when the option is outside                 *)
(* 1..noOfOptions; else NotOptedIn for an account that has not opted in    *)
(* and AlreadyVoted for an account that has voted.                         *)
(***************************************************************************)
VotePreconditionOrder ==
    [][last'.op = "vote" =>
          /\ now' >= endsAt => last'.result = "VotingEnded"
          /\ (now' < endsAt /\ now' <= startsAt)
                => last'.result = "VotingNotStarted"
          /\ (/\ startsAt < now' /\ now' < endsAt
              /\ ~(last'.option >= 1 /\ last'.option <= noOfOptions))
                => last'.result = "InvalidOption"
          /\ (/\ startsAt < now' /\ now' < endsAt
              /\ last'.option >= 1 /\ last'.option <= noOfOptions
              /\ last'.sender \notin optedIn)
                => last'.result = "NotOptedIn"
          /\ (/\ startsAt < now' /\ now' < endsAt
              /\ last'.option >= 1 /\ last'.option <= noOfOptions
              /\ HasVoted(last'.sender))
                => last'.result = "AlreadyVoted"]_vars

VotePreconditionOrderWitness ==
    /\ last.op = "vote" /\ last.result = "VotingEnded"
    /\ vote_status = 1 /\ now >= endsAt
    /\ HasVoted(last.sender)
    /\ last.option = 0

VotePreconditionOrderInsideWitness ==
    /\ last.op = "vote" /\ last.result = "InvalidOption"
    /\ startsAt < now /\ now < endsAt
    /\ HasVoted(last.sender)
    /\ last.option = 0

(***************************************************************************)
(* C14  create_vote reports the first failing precondition:                *)
(* AlreadyCreated when a poll exists; else InvalidOptionCount when         *)
(* noOfOptions is outside 2..4; else InvalidDeadline when endsAt <=        *)
(* current time.                                                           *)
(***************************************************************************)
CreatePreconditionOrder ==
    [][last'.op = "create_vote" =>
          /\ vote_status = 1 => last'.result = "AlreadyCreated"
          /\ (vote_status = 0 /\ last'.noOfOptions \notin 2..4)
                => last'.result = "InvalidOptionCount"
          /\ (/\ vote_status = 0
              /\ last'.noOfOptions \in 2..4
              /\ last'.endsAt <= now')
                => last'.result = "InvalidDeadline"]_vars

CreatePreconditionOrderWitness ==
    /\ last.op = "create_vote" /\ last.result = "InvalidOptionCount"
    /\ vote_status = 0
    /\ last.noOfOptions = 5
    /\ last.endsAt <= now

(***************************************************************************)
(* C15  Effect and frame of a successful vote(option) by account a: a's    *)
(* record becomes voted with chosenOption = option, the tally of option    *)
(* goes up by exactly 1, and the other three tallies, the metadata, the    *)
(* window, vote_status, every other account's record and the opted-in      *)
(* accounts are unchanged.                                                 *)
(***************************************************************************)
VoteEffectAndFrame ==
    [][(last'.op = "vote" /\ last'.result = "Ok") =>
          /\ ~HasVoted(last'.sender)
          /\ DOMAIN localState' = DOMAIN localState \cup {last'.sender}
          /\ localState'[last'.sender] = last'.option
          /\ \A a \in DOMAIN localState : localState'[a] = localState[a]
          /\ \A i \in 1..4 :
                TallyOf(i)' = IF i = last'.option THEN TallyOf(i) + 1
                              ELSE TallyOf(i)
          /\ meta' = meta
          /\ window' = window
          /\ vote_status' = vote_status
          /\ optedIn' = optedIn]_vars

VoteEffectAndFrameWitness ==
    /\ last.op = "vote" /\ last.result = "Ok"
    /\ last.option = 3
    /\ localState[last.sender] = 3
    /\ option3Votes = 1
    /\ \E a \in Accounts : HasVoted(a) /\ a # last.sender /\ localState[a] = 2

(***************************************************************************)
(* C16  Effect of a successful create_vote at time t: all four tallies are *)
(* 0, startsAt = t, endsAt, noOfOptions, title, description and the four   *)
(* option labels (also those beyond noOfOptions) are the supplied values,  *)
(* vote_status = 1, and no account's record or opt-in changes.             *)
(***************************************************************************)
CreateEffect ==
    [][(last'.op = "create_vote" /\ last'.result = "Ok") =>
          \A ti \in Titles, d \in Descriptions,
             o1 \in Option1Labels, o2 \in Option2Labels,
             o3 \in Option3Labels, o4 \in Option4Labels :
             create_vote(now', ti, d, last'.noOfOptions,
                         o1, o2, o3, o4, last'.endsAt) =>
                /\ tallies' = <<0, 0, 0, 0>>
                /\ startsAt' = now'
                /\ endsAt' = last'.endsAt
                /\ noOfOptions' = last'.noOfOptions
                /\ title' = ti
                /\ description' = d
                /\ <<option1', option2', option3', option4'>> = <<o1, o2, o3, o4>>
                /\ vote_status' = 1
                /\ localState' = localState
                /\ optedIn' = optedIn]_vars

CreateEffectWitness ==
    /\ last.op = "create_vote" /\ last.result = "Ok"
    /\ noOfOptions = 2
    /\ option3 = "Maybe"
    /\ startsAt = 1 /\ now = 1
    /\ optedIn # {}

(***************************************************************************)
(* C17  The defensive branch of vote is dead: no call ends in the          *)
(* op.exit(0) branch, and in every reachable state every option that       *)
(* passes 1 <= option <= noOfOptions is in 1..4 and has a branch of the    *)
(* if/elif chain.                                                          *)
(***************************************************************************)
DefensiveBranchDead ==
    /\ last.result # "Exit"
    /\ \A option \in OptionArgs :
          (option >= 1 /\ option <= noOfOptions)
             => (option \in 1..4 /\ IncrementBranch(option) = option)

DefensiveBranchDeadWitness ==
    /\ last.op = "vote" /\ last.result = "Ok"
    /\ last.option = 4
    /\ noOfOptions = 4
    /\ option4Votes = 1

(***************************************************************************)
(* C18  Per-option tally agreement: in every reachable state, for each     *)
(* position i in 1..4, the tally of i equals the number of accounts that   *)
(* have voted with chosenOption = i.                                       *)
(***************************************************************************)
PerOptionTally ==
    \A i \in 1..4 :
        TallyOf(i) = Cardinality({a \in Accounts : HasVoted(a) /\ localState[a] = i})

PerOptionTallyWitness ==
    /\ last.op = "vote" /\ last.result = "Ok"
    /\ option1Votes = 1 /\ option2Votes = 1
    /\ \E a, b \in Accounts :
          HasVoted(a) /\ HasVoted(b) /\ localState[a] = 1 /\ localState[b] = 2

(***************************************************************************)
(* C19  Results are final after the deadline: from a state whose latest    *)
(* call ran at a time >= endsAt on an Active poll, no call of any          *)
(* operation changes a tally or an account's record; that state's          *)
(* condition persists, so this holds for the rest of the run.              *)
(***************************************************************************)
FinalAfterDeadline ==
    [][(vote_status = 1 /\ now >= endsAt) =>
          /\ tallies' = tallies
          /\ localState' = localState
          /\ vote_status' = 1 /\ endsAt' = endsAt /\ now' >= endsAt']_vars

FinalAfterDeadlineWitness ==
    /\ vote_status = 1 /\ now >= endsAt
    /\ last.op = "vote" /\ last.result = "VotingEnded"
    /\ last.sender \in optedIn /\ ~HasVoted(last.sender)
    /\ last.option >= 1 /\ last.option <= noOfOptions
    /\ SumTallies = 1

(***************************************************************************)
(* C20  No votes for non-existent options: in every reachable state every  *)
(* account that has voted has 1 <= chosenOption <= noOfOptions, and the    *)
(* tally of every position i with noOfOptions < i <= 4 is 0.               *)
(***************************************************************************)
NoVoteBeyondOptions ==
    /\ \A a \in Accounts :
          HasVoted(a) => (1 <= localState[a] /\ localState[a] <= noOfOptions)
    /\ \A i \in 1..4 : i > noOfOptions => TallyOf(i) = 0

NoVoteBeyondOptionsWitness ==
    /\ vote_status = 1 /\ noOfOptions = 2
    /\ last.op = "vote" /\ last.result = "InvalidOption"
    /\ last.option = 3
    /\ startsAt < now /\ now < endsAt
    /\ last.sender \in optedIn /\ ~HasVoted(last.sender)
    /\ option3Votes = 0
    /\ SumTallies = 1

TypeOK ==
    /\ noOfOptions \in 0..4
    /\ vote_status \in {0, 1}
    /\ optedIn \subseteq Accounts
    /\ DOMAIN localState \subseteq optedIn
    /\ now \in Times

=============================================================================
